---- MODULE Spec2Model ----
(***************************************************************************)
(* Model of the Cowboy router (lib/request.js: class Cowboy) and of the    *)
(* response builder (lib/response.js: class CowboyResponse).               *)
(*                                                                         *)
(* One router instance serves requests one after the other.  A request is  *)
(* followed through fetch(): scheduler set-up, request construction, body  *)
(* parsing, the global middleware chain, route resolution, the route       *)
(* middleware chain and the conversion to a native response.  Every await  *)
(* of the code is a separate step of the model.                            *)
(***************************************************************************)
EXTENDS Integers, Sequences, FiniteSets, TLC

(* ----------------------------------------------------------------------- *)
(* Bounds of the model                                                     *)
(* ----------------------------------------------------------------------- *)
MaxRoutes == 2      \* user routes registered before traffic starts
MaxChain == 2       \* middleware items per route
MaxEarly == 1       \* middleware items registered with use()
MaxHooks == 2       \* hooks queued on one response, per queue

(* ----------------------------------------------------------------------- *)
(* JavaScript values that travel through the response builder              *)
(* ----------------------------------------------------------------------- *)
\* A value is a record: t is its JavaScript type, s its text, k the key of a
\* one-entry plain object {k: s} (or the name of an Error object).
Val(t, s, k) == [t |-> t, s |-> s, k |-> k]
Undefined == Val("undefined", "", "")
Null == Val("null", "", "")
Str(s) == Val("str", s, "")
Num(s) == Val("num", s, "")
Bool(s) == Val("bool", s, "")
Obj(k, s) == Val("obj", s, k)
Err(name, msg) == Val("Error", msg, name)

\* JavaScript truthiness (the `if (data)` and `!this.body` tests)
Truthy(d) ==
    CASE d.t = "undefined" -> FALSE
      [] d.t = "null" -> FALSE
      [] d.t = "str" -> d.s # ""
      [] d.t = "num" -> d.s # "0"
      [] d.t = "bool" -> d.s = "true"
      [] OTHER -> TRUE

\* JSON.stringify(data) as used by send() for non-string data
JSONStringify(d) ==
    CASE d.t = "undefined" -> Undefined
      [] d.t = "null" -> Str("null")
      [] d.t = "str" -> Str("\"" \o d.s \o "\"")
      [] d.t = "num" -> Str(d.s)
      [] d.t = "bool" -> Str(d.s)
      [] d.t = "obj" -> Str("{\"" \o d.k \o "\":\"" \o d.s \o "\"}")
      [] OTHER -> Str("{}")

(* ----------------------------------------------------------------------- *)
(* Status codes: null, a number, or the digit string cut from an error     *)
(* ----------------------------------------------------------------------- *)
NoCode == [t |-> "null", n |-> 0]
NumCode(n) == [t |-> "num", n |-> n]
StrCode(n) == [t |-> "str", n |-> n]

Digits == <<"0", "1", "2", "3", "4", "5", "6", "7", "8", "9">>
IsDigit(c) == \E i \in 1..Len(Digits) : Digits[i] = c
DigitVal(c) == (CHOOSE i \in 1..Len(Digits) : Digits[i] = c) - 1
CharAt(s, i) == SubSeq(s, i, i)
\* Number("404")
ParseStatus(s) ==
    DigitVal(CharAt(s, 1)) * 100 + DigitVal(CharAt(s, 2)) * 10 + DigitVal(CharAt(s, 3))

(* ----------------------------------------------------------------------- *)
(* CowboyResponse                                                          *)
(* ----------------------------------------------------------------------- *)
NewResponse ==
    [ body |-> Str(""),
      code |-> NoCode,
      headers |-> {},
      hasSent |-> FALSE,
      beforeServeCallbacks |-> <<>>,
      afterErrorCallbacks |-> <<>> ]

\* set(options, value)
ResSet(r, hdrs) == [r EXCEPT !.headers = @ \cup hdrs]

\* a send() that leaves an unset status unset
ResSendNoDefaultStatus(r, data, end) ==
    [r EXCEPT
       !.body = IF data.t = "str" THEN data ELSE JSONStringify(data),
       !.hasSent = IF end THEN TRUE ELSE @]

\* a send() whose flag follows its `end` argument
ResSendFlagFollowsEnd(r, data, end) ==
    [r EXCEPT
       !.code = IF r.code.t = "null" THEN NumCode(200) ELSE @,
       !.body = IF data.t = "str" THEN data ELSE JSONStringify(data),
       !.hasSent = end]

\* send(data, end = true)
ResSend(r, data, end) ==
    [r EXCEPT
       !.code = IF r.code.t = "null" THEN NumCode(200) ELSE @,
       !.body = IF data.t = "str" THEN data ELSE JSONStringify(data),
       !.hasSent = IF end THEN TRUE ELSE @]

\* end(data)
ResEnd(r, data) ==
    [(IF Truthy(data) THEN ResSend(r, data, TRUE) ELSE r) EXCEPT !.hasSent = TRUE]

\* a status() that replaces the body by "ok" on every 2xx code
ResStatusOverwrite(r, code) ==
    LET n == code.n
        r1 == [r EXCEPT !.code = code]
    IN  IF n >= 200 /\ n <= 299
          THEN [r1 EXCEPT !.body = Str("ok")]
          ELSE IF n < 200 \/ (n >= 300 /\ n <= 399)
                 THEN [r1 EXCEPT !.body = Null]
                 ELSE r1

\* a status() without the 1xx / 3xx clearing rule
ResStatusNoClear(r, code) ==
    LET r1 == [r EXCEPT !.code = code]
    IN  IF ~Truthy(r1.body)
          THEN [r1 EXCEPT !.body =
                  IF code.n >= 200 /\ code.n <= 299
                    THEN Str("ok")
                    ELSE Str(ToString(code.n) \o ": Fail")]
          ELSE r1

\* status(code)
ResStatus(r, code) ==
    LET n == code.n
        r1 == [r EXCEPT !.code = code]
    IN  IF n >= 200 /\ n <= 299
          THEN IF ~Truthy(r1.body)
                 THEN [r1 EXCEPT !.body =
                         IF r1.code.n >= 200 /\ r1.code.n <= 299
                           THEN Str("ok")
                           ELSE Str(ToString(r1.code.n) \o ": Fail")]
                 ELSE r1
          ELSE IF n < 200 \/ (n >= 300 /\ n <= 399)
                 THEN [r1 EXCEPT !.body = Null]
                 ELSE r1

\* a sendStatus() that never refuses its data
SendStatusRejectsNothing(data) == FALSE

\* sendStatus(code, data, end = true): `if (data) throw new Error(...)`
SendStatusRejects(data) == Truthy(data)

\* sendStatus(code, data, end = true): the part after the data check
ResSendStatus(r, code, end) ==
    IF end THEN ResEnd(ResStatus(r, code), Undefined) ELSE ResStatus(r, code)

\* beforeServe(cb)
ResBeforeServe(r, cb) ==
    [r EXCEPT !.beforeServeCallbacks = Append(@, cb)]

\* afterError(cb): the registration of the error-hook queue read by execMiddleware
ResAfterError(r, cb) ==
    [r EXCEPT !.afterErrorCallbacks = Append(@, cb)]

(* ----------------------------------------------------------------------- *)
(* Paths.  A path is the sequence of its segments: "/widgets/7" is         *)
(* <<"widgets", "7">>, "/" is <<"">> and "//widgets" is <<"", "widgets">>. *)
(* ----------------------------------------------------------------------- *)
RECURSIVE TrimSlashes(_)
\* .replace(/^\/+/, '/'): collapse the leading slashes into one
TrimSlashes(p) ==
    IF Len(p) > 1 /\ p[1] = "" THEN TrimSlashes(Tail(p)) ELSE p

\* settings.pathTidy(path): remove a leading "/api/<word>" then trim slashes
pathTidy(p) ==
    LET stripped ==
          IF Len(p) >= 2 /\ p[1] = "api" /\ p[2] # ""
            THEN <<"">> \o SubSeq(p, 3, Len(p))
            ELSE p
    IN  TrimSlashes(stripped)

\* A pattern is a sequence of segments; a segment starting with ":" is a
\* named parameter and accepts any non-empty segment.
IsParam(seg) == Len(seg) > 0 /\ CharAt(seg, 1) = ":"
PatternTest(pat, path) ==
    /\ Len(pat) = Len(path)
    /\ \A i \in 1..Len(pat) :
         IF IsParam(pat[i]) THEN path[i] # "" ELSE pat[i] = path[i]

\* matcher.isMatch(path): some pattern of the route accepts the path
isMatch(paths, path) == \E i \in 1..Len(paths) : PatternTest(paths[i], path)

\* Array.prototype.includes on the route's method list
Includes(seq, x) == \E i \in 1..Len(seq) : seq[i] = x

(* ----------------------------------------------------------------------- *)
(* The inputs the model draws from                                         *)
(* ----------------------------------------------------------------------- *)
Methods == {"GET", "POST"}
RawPaths == { <<"widgets", "7">>, <<"api", "w1", "widgets">>, <<"nope">> }
MethodLists == { <<"GET">>, <<"GET", "POST">> }
PathLists == { << <<"widgets">> >>, << <<"widgets", ":id">> >> }
ScheduledPath == <<"__scheduled">>

\* Middleware references: "fn" is a user function
UserRefs == {"fn"}
RECURSIVE SeqsUpTo(_, _)
SeqsUpTo(S, n) ==
    IF n = 0 THEN { <<>> }
    ELSE LET shorter == SeqsUpTo(S, n - 1)
         IN  shorter \cup { Append(q, x) : q \in shorter, x \in S }

(* ----------------------------------------------------------------------- *)
(* State                                                                   *)
(* ----------------------------------------------------------------------- *)
VARIABLES
    phase,              \* "setup" while the application registers, then "serving"
    routes,             \* Cowboy.routes
    earlyMiddleware,    \* Cowboy.earlyMiddleware
    schedulerSetup,     \* Cowboy._schedulerSetup
    scheduleHandler,    \* Cowboy.schedule.handler is installed
    pc,                 \* position of the running fetch()
    req,                \* the CowboyRequest of the running fetch()
    res,                \* the CowboyResponse of the running fetch()
    chain,              \* which chain execMiddleware is running: 0 global, r route index
    stack,              \* execMiddleware: middlewareStack (items not yet shifted)
    response,           \* execMiddleware: the local `response`
    inProgress,         \* middleware items invoked and not settled
    caught,             \* the exception held by the catch block
    hookIdx,            \* Array.fromAsync position in the hook queue being run
    outcome,            \* what fetch() settled with
    calls,              \* history: the middleware invocations of this request
    last,               \* history: what the item settled last did
    hookRuns,           \* history: the before-serve hooks run for this request
    errRuns,            \* history: the error hooks run for the exception held
    loadedCors,         \* Cowboy.loadedCors: the CORS middleware has attached its routes
    settingsScheduler,  \* Cowboy.settings.scheduler: "true", "false" or "VAR"
    sched,              \* history: scheduler handler calls and the host's waitUntil
    probe,              \* history: the last call made directly on a CowboyResponse
    debugEnabled        \* CowboyDebug.enabled, a property of the module's debug function

vars == << phase, routes, earlyMiddleware, schedulerSetup, scheduleHandler, pc, req,
           res, chain, stack, response, inProgress, caught, hookIdx, outcome, calls,
           last, hookRuns, errRuns, loadedCors, settingsScheduler, sched, probe,
           debugEnabled >>

router == << routes, earlyMiddleware, schedulerSetup, scheduleHandler, settingsScheduler,
            loadedCors >>

\* what the scheduler history starts as: no handler call, nothing given to the
\* host's waitUntil, no environment seen with COWBOY_SCHEDULER set
NoSched == [handlerCalls |-> <<>>, waitUntil |-> <<>>, ctxErrors |-> 0, envSeen |-> FALSE,
            raised |-> FALSE, installed |-> FALSE, owner |-> "", envDebug |-> FALSE]
NoProbe == [op |-> "", code |-> NoCode, data |-> Undefined, before |-> NewResponse,
            threw |-> FALSE]
history == << sched, probe >>

NoReq == [method |-> "", path |-> <<>>, params |-> <<>>, body |-> Undefined]
NoLast == [beh |-> "", fresh |-> FALSE, cors |-> ""]
NoOutcome == [kind |-> "none", status |-> NoCode, body |-> Undefined, headers |-> {},
              error |-> ""]

Init ==
    /\ phase = "setup"
    /\ routes = <<>>
    /\ earlyMiddleware = <<>>
    /\ schedulerSetup = FALSE
    /\ scheduleHandler = FALSE
    /\ pc = "idle"
    /\ req = NoReq
    /\ res = NewResponse
    /\ chain = 0
    /\ stack = <<>>
    /\ response = Undefined
    /\ inProgress = {}
    /\ caught = Undefined
    /\ hookIdx = 0
    /\ outcome = NoOutcome
    /\ calls = <<>>
    /\ last = NoLast
    /\ hookRuns = <<>>
    /\ errRuns = <<>>
    /\ loadedCors = FALSE
    /\ settingsScheduler = "VAR"
    /\ sched = NoSched
    /\ probe = NoProbe
    /\ debugEnabled = FALSE

request == << pc, req, res, chain, stack, response, inProgress, caught, hookIdx,
              outcome, calls, last, hookRuns, errRuns >>

(* ----------------------------------------------------------------------- *)
(* Registration                                                            *)
(* ----------------------------------------------------------------------- *)
NewRoute(methods, paths, middleware) ==
    [methods |-> methods, paths |-> paths, middleware |-> middleware]

\* route(methods, paths, ...middleware)
route(methods, paths, middleware) ==
    /\ phase = "setup"
    /\ Len(routes) < MaxRoutes
    /\ routes' = Append(routes, NewRoute(methods, paths, middleware))
    /\ UNCHANGED << phase, earlyMiddleware, schedulerSetup, scheduleHandler,
                    settingsScheduler, loadedCors, request, history >>
    /\ UNCHANGED debugEnabled

\* use(...middleware)
use(middleware) ==
    /\ phase = "setup"
    /\ Len(earlyMiddleware) + Len(middleware) <= MaxEarly
    /\ middleware # <<>>
    /\ earlyMiddleware' = earlyMiddleware \o middleware
    /\ UNCHANGED << phase, routes, schedulerSetup, scheduleHandler, settingsScheduler,
                    loadedCors, request, history >>
    /\ UNCHANGED debugEnabled

\* schedule(handler)
schedule ==
    /\ phase = "setup"
    /\ ~scheduleHandler
    /\ scheduleHandler' = TRUE
    /\ sched' = [sched EXCEPT !.owner = "this"]
    /\ UNCHANGED << phase, routes, earlyMiddleware, schedulerSetup, settingsScheduler,
                    loadedCors, request, probe >>
    /\ UNCHANGED debugEnabled

\* schedule(handler) called on another router of the same module:
\* `this.schedule` is the method of the class, the one object every router
\* finds under that name, so the handler lands where this router reads it
scheduleOther ==
    /\ pc = "idle"
    /\ sched.owner # "other"
    /\ scheduleHandler' = TRUE
    /\ sched' = [sched EXCEPT !.owner = "other"]
    /\ UNCHANGED << phase, routes, earlyMiddleware, schedulerSetup, settingsScheduler,
                    loadedCors, request, probe >>
    /\ UNCHANGED debugEnabled

\* cowboy(): the application is built and handed to the host
Serve ==
    /\ phase = "setup"
    /\ phase' = "serving"
    /\ UNCHANGED << router, request, history >>
    /\ UNCHANGED debugEnabled

(* ----------------------------------------------------------------------- *)
(* A CowboyResponse used directly: one action per method call, on the      *)
(* response the calls before it have left.                                 *)
(* ----------------------------------------------------------------------- *)
ProbeCodes == {100, 200, 204, 299, 304, 399, 404, 500}
ProbeData == { Undefined, Null, Str(""), Str("hi"), Num("0"), Obj("id", "7") }

Probe(op, code, data, before, threw) ==
    [op |-> op, code |-> code, data |-> data, before |-> before, threw |-> threw]

CallSend(data, end) ==
    /\ phase = "setup" /\ pc = "idle"
    /\ res' = ResSend(res, data, end)
    /\ probe' = Probe("send", NoCode, data, res, FALSE)
    /\ UNCHANGED << phase, router, pc, req, chain, stack, response, inProgress, caught,
                    hookIdx, outcome, calls, last, hookRuns, errRuns, sched >>
    /\ UNCHANGED debugEnabled

CallEnd(data) ==
    /\ phase = "setup" /\ pc = "idle"
    /\ res' = ResEnd(res, data)
    /\ probe' = Probe("end", NoCode, data, res, FALSE)
    /\ UNCHANGED << phase, router, pc, req, chain, stack, response, inProgress, caught,
                    hookIdx, outcome, calls, last, hookRuns, errRuns, sched >>
    /\ UNCHANGED debugEnabled

CallStatus(n) ==
    /\ phase = "setup" /\ pc = "idle"
    /\ res' = ResStatus(res, NumCode(n))
    /\ probe' = Probe("status", NumCode(n), Undefined, res, FALSE)
    /\ UNCHANGED << phase, router, pc, req, chain, stack, response, inProgress, caught,
                    hookIdx, outcome, calls, last, hookRuns, errRuns, sched >>
    /\ UNCHANGED debugEnabled

\* sendStatus(code, data, end): `if (data) throw`, then status() and end()
CallSendStatus(n, data, end) ==
    /\ phase = "setup" /\ pc = "idle"
    /\ IF SendStatusRejects(data)
         THEN /\ probe' = Probe("sendStatus", NumCode(n), data, res, TRUE)
              /\ UNCHANGED res
         ELSE /\ probe' = Probe("sendStatus", NumCode(n), data, res, FALSE)
              /\ res' = ResSendStatus(res, NumCode(n), end)
    /\ UNCHANGED << phase, router, pc, req, chain, stack, response, inProgress, caught,
                    hookIdx, outcome, calls, last, hookRuns, errRuns, sched >>
    /\ UNCHANGED debugEnabled

ResNext ==
    \/ \E d \in ProbeData, e \in BOOLEAN : CallSend(d, e)
    \/ \E d \in ProbeData : CallEnd(d)
    \/ \E n \in ProbeCodes : CallStatus(n)
    \/ \E n \in ProbeCodes, d \in ProbeData, e \in BOOLEAN : CallSendStatus(n, d, e)

SpecRes == Init /\ [][ResNext]_vars

(* ----------------------------------------------------------------------- *)
(* What a middleware function does: the calls it makes on res, then the    *)
(* value it returns or the value it throws.                                *)
(* ----------------------------------------------------------------------- *)
ResRef == Val("res", "", "")        \* the CowboyResponse object itself

Op(op, d, c, e) == [op |-> op, d |-> d, c |-> c, e |-> e]
OpSend(d) == Op("send", d, NoCode, TRUE)
OpSendOpen(d) == Op("send", d, NoCode, FALSE)
OpEnd(d) == Op("end", d, NoCode, TRUE)
OpStatus(n) == Op("status", Undefined, NumCode(n), TRUE)
OpSendStatus(n, d) == Op("sendStatus", d, NumCode(n), TRUE)
OpSet(h) == Op("set", Str(h), NoCode, TRUE)
OpBeforeServe == Op("beforeServe", Undefined, NoCode, TRUE)
OpAfterError == Op("afterError", Undefined, NoCode, TRUE)

SendStatusError ==
    Err("Error", "Data is not allowed with CowboyResponse.sendStatus(code)")

\* the header names of the one res.set({...}) call of the CORS middleware
CorsHeaders ==
    { "Access-Control-Allow-Origin", "Access-Control-Allow-Methods",
      "Access-Control-Allow-Headers", "Content-Type" }

\* One call on the response builder: the response after it and what it threw
ApplyOp(r, o) ==
    CASE o.op = "send" -> [res |-> ResSend(r, o.d, o.e), thrown |-> FALSE, err |-> Undefined]
      [] o.op = "end" -> [res |-> ResEnd(r, o.d), thrown |-> FALSE, err |-> Undefined]
      [] o.op = "status" -> [res |-> ResStatus(r, o.c), thrown |-> FALSE, err |-> Undefined]
      [] o.op = "sendStatus" ->
           IF SendStatusRejects(o.d)
             THEN [res |-> r, thrown |-> TRUE, err |-> SendStatusError]
             ELSE [res |-> ResSendStatus(r, o.c, o.e), thrown |-> FALSE, err |-> Undefined]
      [] o.op = "set" -> [res |-> ResSet(r, {o.d.s}), thrown |-> FALSE, err |-> Undefined]
      [] o.op = "setAll" -> [res |-> ResSet(r, CorsHeaders), thrown |-> FALSE, err |-> Undefined]
      [] o.op = "beforeServe" ->
           [res |-> ResBeforeServe(r, "cb"), thrown |-> FALSE, err |-> Undefined]
      [] o.op = "afterError" ->
           [res |-> ResAfterError(r, "cb"), thrown |-> FALSE, err |-> Undefined]

RECURSIVE ApplyOps(_, _)
ApplyOps(r, ops) ==
    IF ops = <<>> THEN [res |-> r, thrown |-> FALSE, err |-> Undefined]
    ELSE LET first == ApplyOp(r, Head(ops))
         IN  IF first.thrown THEN first ELSE ApplyOps(first.res, Tail(ops))

\* A behaviour: ops, then `return ret` or (throws) `throw ret`
Beh(name, ops, ret, throws) ==
    [name |-> name, ops |-> ops, ret |-> ret, throws |-> throws]

Widget == Obj("id", "7")

Pass == Beh("pass", <<>>, Undefined, FALSE)
RetObj == Beh("retObj", <<>>, Widget, FALSE)
RetZero == Beh("retZero", <<>>, Num("0"), FALSE)
RetRes == Beh("retRes", <<>>, ResRef, FALSE)
EndRet == Beh("endRet", << OpEnd(Undefined) >>, ResRef, FALSE)
SendOpenRet == Beh("sendOpenRet", << OpSendOpen(Widget) >>, ResRef, FALSE)
Throws(v) == Beh("throws", <<>>, v, TRUE)

\* the values a function that throws may throw, one of every shape the error
\* digest tells apart
ThrownValues ==
    { Undefined, Null, Str("oops"), Err("Error", "boom"), Err("TypeError", "boom"),
      Obj("other", "bad"), Obj("status", "-1"),
      Obj("error", "bad"), Obj("err", "bad"), Obj("data", "bad"),
      Obj("data.errmsg", "bad"), Obj("data.error", "bad"), Obj("data.err", "bad"),
      Obj("data.statusText", "bad") }
ThrowBehaviours == { Throws(v) : v \in ThrownValues }
\* the states in which a function may hand the response object back
HandBackBehaviours == { RetRes, EndRet, SendOpenRet }
SendNoRet == Beh("sendNoRet", << OpSend(Widget) >>, Undefined, FALSE)
Forbid == Beh("forbid", << OpStatus(403), OpSend(Str("Forbidden")) >>, ResRef, FALSE)
EndNoRet == Beh("endNoRet", << OpEnd(Undefined) >>, Undefined, FALSE)
Throw404 == Beh("throw404", <<>>, Str("404: widget missing"), TRUE)
ThrowOops == Beh("throwOops", <<>>, Str("oops"), TRUE)
RegBeforeServe == Beh("regBeforeServe", << OpBeforeServe >>, Undefined, FALSE)
RegAfterError == Beh("regAfterError", << OpAfterError >>, Undefined, FALSE)

FnBehaviours ==
    { Pass, RetObj, RetZero, SendNoRet, Forbid, EndNoRet, Throw404, ThrowOops,
      RegBeforeServe, RegAfterError }

(* ----------------------------------------------------------------------- *)
(* The CORS middleware, CowboyMiddleware.cors                              *)
(* ----------------------------------------------------------------------- *)
CorsName == "cors"

\* the settings of cors() called without options
CorsSettings == [attachOptions |-> TRUE]

\* the function cors() returns: res.set({...}) and no return value
CorsBeh == Beh(CorsName, << Op("setAll", Undefined, NoCode, TRUE) >>, Undefined, FALSE)

\* the handler of an attached route: (req, res) => res.sendStatus(200)
CorsOptionsBeh == Beh("corsOptions", << OpSendStatus(200, Undefined) >>, ResRef, FALSE)

\* a middleware that sets the headers and attaches nothing
CorsAttachNothing(rts) == rts

\* a middleware that attaches its routes on every run
NeedsCorsAttachNoFlag(attachOptions) == attachOptions

\* `settings.attachOptions && !req.router.loadedCors`
NeedsCorsAttach(attachOptions) == attachOptions /\ ~loadedCors

\* router.options(path, handler) for every path of one route
OptionsRoutes(rt) ==
    [i \in 1..Len(rt.paths) |-> NewRoute(<<"OPTIONS">>, << rt.paths[i] >>, <<"corsOptions">>)]

\* routes.filter(route => !route.methods.includes('OPTIONS')).forEach(...): the
\* list after the routes of rts[from..] that lack OPTIONS have been attached to
RECURSIVE CorsAttachFrom(_, _, _)
CorsAttachFrom(rts, all, from) ==
    IF from > Len(rts) THEN all
    ELSE CorsAttachFrom(rts,
                        IF Includes(rts[from].methods, "OPTIONS")
                          THEN all ELSE all \o OptionsRoutes(rts[from]),
                        from + 1)
CorsAttach(rts) == CorsAttachFrom(rts, rts, 1)

(* ----------------------------------------------------------------------- *)
(* The schedule handler.  What the installed function does when called as  *)
(* (event, env, ctx):                                                      *)
(*   resolve        an async function that returns                         *)
(*   reject         an async function that throws                          *)
(*   waitUntil      an async function that calls ctx.waitUntil(...)        *)
(*   throw          a plain function that throws                           *)
(*   waitUntilSync  a plain function that calls ctx.waitUntil(...)         *)
(* ----------------------------------------------------------------------- *)
\* "rejectNothing" is a handler that rejects without a reason: Promise.reject()
HandlerKinds == {"resolve", "reject", "rejectNothing", "waitUntil", "throw", "waitUntilSync"}
CallsWaitUntil(kind) == kind \in {"waitUntil", "waitUntilSync"}

\* an adapter that hands the host's own context to the handler
HandlerCtxHost(via) == "host"

\* the context handed to the handler: an object whose waitUntil() throws, both
\* in scheduled() and in the /__scheduled route
HandlerCtx(via) == "fake"

WaitUntilError ==
    Err("Error", "ctx.waitUntil() functionality is provided natively by Cowboy.schedule")
HandlerError == Err("Error", "boom")

\* One call of the handler with the context ctx: whether its ctx.waitUntil()
\* threw (ctxError) or reached the host (hostWait), and how the call ended:
\* a promise that resolves or rejects, a plain value, or a synchronous throw
HandlerRun(kind, ctx) ==
    LET refused == CallsWaitUntil(kind) /\ ctx = "fake"
    IN  [ ctxError |-> refused,
          hostWait |-> CallsWaitUntil(kind) /\ ctx = "host",
          result |->
            CASE kind = "resolve" -> "resolved"
              [] kind \in {"reject", "rejectNothing"} -> "rejected"
              [] kind = "waitUntil" -> (IF refused THEN "rejected" ELSE "resolved")
              [] kind = "throw" -> "thrown"
              [] OTHER -> (IF refused THEN "thrown" ELSE "value"),
          value |-> IF kind = "resolve" THEN Widget ELSE Undefined,
          error |-> CASE refused -> WaitUntilError
                      [] kind = "rejectNothing" -> Undefined
                      [] OTHER -> HandlerError ]

HandlerCall(via, kind) == [via |-> via, kind |-> kind, args |-> <<"event", "env">>]

\* a scheduled() that calls the handler without handing its promise to the host
WaitUntilArgsDropped(v) == <<>>

\* scheduled(): ctx.waitUntil(this.schedule.handler.call(...))
WaitUntilArgs(v) == << [by |-> "adapter", value |-> v] >>

\* the /__scheduled route: `if (!this.schedule.handler)`
HandlerMissing(installed) == ~installed

EndpointName(kind) == "scheduled_" \o kind

\* `e.toString()` in the catch block of the route, for an e without members
TypeErrorToString ==
    Err("TypeError", "Cannot read properties of undefined (reading 'toString')")

\* the /__scheduled route after `await this.schedule.handler.call(...)`:
\* res.send(result), or res.status(400).send(`Scheduler threw error: ...`)
EndpointBeh(kind) ==
    LET run == HandlerRun(kind, HandlerCtx("fetch"))
    IN  IF run.result \in {"resolved", "value"}
          THEN Beh(EndpointName(kind), << OpSend(run.value) >>, ResRef, FALSE)
          ELSE IF run.error \in {Undefined, Null}
                 THEN Beh(EndpointName(kind), << OpStatus(400) >>, TypeErrorToString, TRUE)
                 ELSE Beh(EndpointName(kind),
                          << OpStatus(400),
                             OpSend(Str("Scheduler threw error: Error: " \o run.error.s)) >>,
                          ResRef, FALSE)

\* The handler of the synthetic /__scheduled route
SchedBehaviours(installed) ==
    IF HandlerMissing(installed)
      THEN { Beh("noScheduler",
                 << OpStatus(404), OpSend(Str("No scheduler installed")) >>, ResRef, FALSE) }
      ELSE { EndpointBeh(k) : k \in HandlerKinds }

\* the scheduler history after the /__scheduled route has run behaviour b
EndpointSched(sc, b) ==
    IF \E k \in HandlerKinds : b.name = EndpointName(k)
      THEN LET kind == CHOOSE k \in HandlerKinds : b.name = EndpointName(k)
               run == HandlerRun(kind, HandlerCtx("fetch"))
           IN  [sc EXCEPT
                  !.handlerCalls = Append(@, HandlerCall("fetch", kind)),
                  !.ctxErrors = @ + (IF run.ctxError THEN 1 ELSE 0),
                  !.waitUntil = @ \o (IF run.hostWait THEN << [by |-> "handler", value |-> "value"] >>
                                      ELSE <<>>)]
      ELSE sc

\* What a hook does when it is run
HookOutcomes == {"noop", "etag", "notModified", "throw"}

\* The hook queues are bounded: a behaviour that would overfill one is not drawn
RECURSIVE CountOps(_, _)
CountOps(ops, name) ==
    IF ops = <<>> THEN 0
    ELSE (IF Head(ops).op = name THEN 1 ELSE 0) + CountOps(Tail(ops), name)
FitsHooks(r, b) ==
    /\ Len(r.beforeServeCallbacks) + CountOps(b.ops, "beforeServe") <= MaxHooks
    /\ Len(r.afterErrorCallbacks) + CountOps(b.ops, "afterError") <= MaxHooks

(* ----------------------------------------------------------------------- *)
(* execMiddleware: the error digest of the catch block                     *)
(* ----------------------------------------------------------------------- *)
UnknownError == "An unknown error has occured"

\* e.toString() of an Error object
ErrorToString(e) == IF e.s = "" THEN e.k ELSE e.k \o ": " \o e.s

\* .replace(/^Error: /, '')
StripErrorPrefix(s) ==
    IF Len(s) >= 7 /\ SubSeq(s, 1, 7) = "Error: " THEN SubSeq(s, 8, Len(s)) ELSE s

\* the fields the digest looks a string up in, in this order; "data.errmsg"
\* is the field errmsg of the object in field data
ErrorFields ==
    << "error", "err", "data", "data.errmsg", "data.error", "data.err", "data.statusText" >>

errorText(e) ==
    CASE ~Truthy(e) -> UnknownError
      [] e.t = "str" -> e.s
      [] e.t = "Error" -> StripErrorPrefix(ErrorToString(e))
      [] e.t = "obj" /\ Includes(ErrorFields, e.k) /\ e.s # "" -> e.s
      [] e.t = "obj" /\ e.k = "status" /\ e.s = "-1" -> "Server connection failed"
      [] OTHER -> UnknownError

\* /^(\d{3}):/.test(errorText)
HasStatusPrefix(s) ==
    /\ Len(s) >= 4
    /\ \A i \in 1..3 : IsDigit(CharAt(s, i))
    /\ CharAt(s, 4) = ":"

\* the groups of /^(?<status>\d{3}):?(?<text>.*)$/ when HasStatusPrefix holds
ErrorBitsStatus(s) == StrCode(ParseStatus(SubSeq(s, 1, 3)))
ErrorBitsText(s) == SubSeq(s, 5, Len(s))

\* the response written by the catch block
ErrorResponse(r, text) ==
    IF HasStatusPrefix(text)
      THEN ResSend(ResStatus(r, ErrorBitsStatus(text)), Str(ErrorBitsText(text)), TRUE)
      ELSE ResSend(ResStatus(r, NumCode(400)), Str(text), TRUE)

(* ----------------------------------------------------------------------- *)
(* Cowboy.resolve and the scheduler set-up of fetch()                      *)
(* ----------------------------------------------------------------------- *)
RouteMatches(rt, rq) == Includes(rt.methods, rq.method) /\ isMatch(rt.paths, rq.path)

\* a resolve that keeps the last matching route (Array.prototype.findLast)
resolveLast(rts, rq) ==
    IF \E i \in 1..Len(rts) : RouteMatches(rts[i], rq)
      THEN CHOOSE i \in 1..Len(rts) :
             /\ RouteMatches(rts[i], rq)
             /\ \A j \in (i + 1)..Len(rts) : ~RouteMatches(rts[j], rq)
      ELSE 0

\* routes.find(...): the index of the first matching route, 0 when there is none
resolve(rts, rq) ==
    IF \E i \in 1..Len(rts) : RouteMatches(rts[i], rq)
      THEN CHOOSE i \in 1..Len(rts) :
             /\ RouteMatches(rts[i], rq)
             /\ \A j \in 1..(i - 1) : ~RouteMatches(rts[j], rq)
      ELSE 0

ScheduledRoute == NewRoute(<<"GET">>, << ScheduledPath >>, <<"scheduled">>)

\* a set-up that always appends the synthetic route
FirstGetIndexAppend(rts) == Len(rts) + 1

\* routes.findIndex(r => r.methods.some(m => m == 'GET')), routes.length if none
FirstGetIndex(rts) ==
    IF \E i \in 1..Len(rts) : Includes(rts[i].methods, "GET")
      THEN CHOOSE i \in 1..Len(rts) :
             /\ Includes(rts[i].methods, "GET")
             /\ \A j \in 1..(i - 1) : ~Includes(rts[j].methods, "GET")
      ELSE Len(rts) + 1

\* a splice that takes the place of the route it finds: splice(routeIndex, 1, route)
SpliceOver(rts, i, rt) == SubSeq(rts, 1, i - 1) \o << rt >> \o SubSeq(rts, i + 1, Len(rts))

\* routes.splice(routeIndex, 0, route)
Splice(rts, i, rt) == SubSeq(rts, 1, i - 1) \o << rt >> \o SubSeq(rts, i, Len(rts))

\* a lookup that keeps the last pattern that accepts the path (findLastIndex)
LastPathIndex(paths, path) ==
    CHOOSE i \in 1..Len(paths) :
      /\ PatternTest(paths[i], path)
      /\ \A j \in (i + 1)..Len(paths) : ~PatternTest(paths[j], path)

\* req.params: the named groups of the first pattern that accepts the path
FirstPathIndex(paths, path) ==
    CHOOSE i \in 1..Len(paths) :
      /\ PatternTest(paths[i], path)
      /\ \A j \in 1..(i - 1) : ~PatternTest(paths[j], path)
RECURSIVE Groups(_, _)
Groups(pat, path) ==
    IF pat = <<>> THEN <<>>
    ELSE (IF IsParam(Head(pat))
            THEN << << SubSeq(Head(pat), 2, Len(Head(pat))), Head(path) >> >>
            ELSE <<>>) \o Groups(Tail(pat), Tail(path))

(* ----------------------------------------------------------------------- *)
(* fetch(cfReq, env)                                                       *)
(* ----------------------------------------------------------------------- *)
Raised(msg) == [NoOutcome EXCEPT !.kind = "raised", !.error = msg]

\* new Response(body, {status, headers})
NativeResponse(r) ==
    [ kind |-> "response",
      status |-> IF r.code.t = "null" THEN NoCode ELSE NumCode(r.code.n),
      body |-> r.body,
      headers |-> r.headers,
      error |-> "" ]

\* execMiddleware: the references a chain can resolve to callables
Resolvable(ref) == ref \in {"fn", "scheduled", "cors", "corsOptions", "thrower", "handback"}

\* a resolution that looks a reference up only when its turn comes
ChainResolvesLazy(middleware) == middleware = <<>> \/ Resolvable(middleware[1])

\* execMiddleware: middleware.map(...) resolves every reference of the chain
\* before the loop starts
ChainResolves(middleware) == \A i \in 1..Len(middleware) : Resolvable(middleware[i])

\* what resolving a reference throws: a name the registry lacks is
\* CowboyMiddleware[m].apply on undefined, any other value is the typed error
TypeErrorApply == "TypeError: Cannot read properties of undefined (reading 'apply')"
UnknownMiddlewareType == "Unknown middleware type"
ResolveError(ref) == IF ref = "nope" THEN TypeErrorApply ELSE UnknownMiddlewareType

\* the error of the first reference of the chain that does not resolve
ChainResolveError(middleware) ==
    LET i == CHOOSE k \in 1..Len(middleware) :
               /\ ~Resolvable(middleware[k])
               /\ \A j \in 1..(k - 1) : Resolvable(middleware[j])
    IN  ResolveError(middleware[i])

\* execMiddleware: middlewareStack for a list of references
StackOf(middleware) == [i \in 1..Len(middleware) |-> [ref |-> middleware[i], idx |-> i]]

\* fetch(): settings.scheduler === true, or 'VAR' with env.COWBOY_SCHEDULER truthy
SchedulerEnabled(envScheduler) ==
    \/ settingsScheduler = "true"
    \/ settingsScheduler = "VAR" /\ envScheduler

\* a set-up that does not look at the _schedulerSetup flag
NeedsSchedulerSetupNoFlag(envScheduler) == SchedulerEnabled(envScheduler)

\* fetch(): `!this._schedulerSetup && (...)`
NeedsSchedulerSetup(envScheduler) == ~schedulerSetup /\ SchedulerEnabled(envScheduler)

\* fetch() up to its first await: init, scheduler set-up, request construction
FetchEnter(method, rawPath, body, envScheduler, envDebug) ==
    /\ phase = "serving"
    /\ pc = "idle"
    /\ debugEnabled' = (debugEnabled \/ envDebug)
    /\ sched' = [NoSched EXCEPT
                   !.owner = sched.owner,
                   !.envDebug = envDebug,
                   !.envSeen = sched.envSeen \/ envScheduler,
                   !.installed = schedulerSetup \/ NeedsSchedulerSetup(envScheduler)]
    /\ IF NeedsSchedulerSetup(envScheduler)
         THEN /\ schedulerSetup' = TRUE
              /\ routes' = Splice(routes, FirstGetIndex(routes), ScheduledRoute)
         ELSE UNCHANGED << schedulerSetup, routes >>
    /\ req' = [method |-> method, path |-> pathTidy(rawPath), params |-> <<>>,
               body |-> body]
    /\ pc' = "parseBody"
    /\ UNCHANGED << phase, earlyMiddleware, scheduleHandler, settingsScheduler, res, chain,
                    stack, response, inProgress, caught, hookIdx, outcome, calls, last,
                    hookRuns, errRuns, loadedCors >>

\* fetch(cfReq, env) called by the host with a request that carries no body
FetchStart(method, rawPath, envScheduler) ==
    /\ FetchEnter(method, rawPath, Undefined, envScheduler, FALSE)
    /\ UNCHANGED probe

\* fetch(cfReq, env) with env.COWBOY_DEBUG set: `debug.enabled = true`, a
\* property of the module's debug function
FetchDebug(method, rawPath) ==
    /\ FetchEnter(method, rawPath, Undefined, FALSE, TRUE)
    /\ UNCHANGED probe

(* ----------------------------------------------------------------------- *)
(* proxy(url, options, env)                                                *)
(* ----------------------------------------------------------------------- *)
\* Request bodies: a FormData, URLSearchParams or plain object is written with
\* its one entry {k: s}; a ReadableStream or Blob with its content s
FormData(k, s) == Val("FormData", s, k)
EmptyFormData == Val("FormData", "", "")
URLSearchParams(k, s) == Val("URLSearchParams", s, k)
ReadableStream(s) == Val("ReadableStream", s, "")
Blob(s) == Val("Blob", s, "")

\* Object.entries(body).forEach(([key, val]) => body.append(key, val)): a plain
\* object has its entry, a Blob has no own enumerable property
EntriesToFormData(body) == IF body.t = "obj" THEN FormData(body.k, body.s) ELSE EmptyFormData

\* typeof body == 'object'
TypeofObject(body) == body.t \notin {"undefined", "str", "num", "bool"}

\* the body given to the Request that proxy() constructs
ProxyBody(body) ==
    CASE ~Truthy(body) -> body
      [] body.t \in {"FormData", "ReadableStream", "URLSearchParams", "str"} -> body
      [] TypeofObject(body) -> EntriesToFormData(body)
      [] OTHER -> Undefined

\* `if (!url || !options || !env) throw`, then this.fetch(new Request(...), env)
proxy(given, method, url, body, envScheduler) ==
    /\ phase = "serving"
    /\ pc = "idle"
    /\ IF ~given
         THEN /\ probe' = Probe("proxy", NoCode, body, NewResponse, TRUE)
              /\ UNCHANGED << phase, router, request, sched, debugEnabled >>
         ELSE /\ probe' = Probe("proxy", NoCode, body, NewResponse, FALSE)
              /\ FetchEnter(method, url, ProxyBody(body), envScheduler, FALSE)

\* what parseBody() throws for a JSON body that does not decode
InvalidJsonBody == "Invalid JSON body"

\* await req.parseBody(), then the start of the global chain
ParseBody(decoded) ==
    /\ pc = "parseBody"
    /\ decoded \/ req.method = "POST"
    /\ IF ~decoded
         THEN /\ outcome' = Raised(InvalidJsonBody)
              /\ pc' = "raised"
              /\ UNCHANGED << res, chain, stack, response >>
         ELSE /\ res' = NewResponse
              /\ chain' = 0
              /\ IF ChainResolves(earlyMiddleware)
                   THEN /\ stack' = StackOf(earlyMiddleware)
                        /\ response' = Undefined
                        /\ pc' = IF earlyMiddleware = <<>> THEN "chainEnd" ELSE "chain"
                        /\ UNCHANGED outcome
                   ELSE /\ outcome' = Raised(ChainResolveError(earlyMiddleware))
                        /\ pc' = "raised"
                        /\ UNCHANGED << stack, response >>
    /\ UNCHANGED << phase, router, req, inProgress, caught, hookIdx, calls, last, hookRuns,
                    errRuns, history >>
    /\ UNCHANGED debugEnabled

\* a loop that never takes the next item
CanInvokeNever == FALSE

\* a loop that does not await the item it has called
CanInvokeNoAwait == pc \in {"chain", "await"}

\* execMiddleware: the loop may shift the next item only when none is awaited
CanInvoke == pc = "chain"

\* execMiddleware: middlewareStack.shift() and the call of the item
MwInvoke ==
    /\ CanInvoke
    /\ stack # <<>>
    /\ LET item == Head(stack)
       IN  /\ inProgress' = inProgress \cup {item.idx}
           /\ calls' = Append(calls, [chain |-> chain, idx |-> item.idx, sent |-> res.hasSent])
    /\ stack' = Tail(stack)
    /\ pc' = "await"
    /\ UNCHANGED << phase, router, req, res, chain, response, caught, hookIdx, outcome,
                    last, hookRuns, errRuns, history >>
    /\ UNCHANGED debugEnabled

\* the reference behind item idx of the chain being run
RefOf(idx) ==
    IF chain = 0 THEN earlyMiddleware[idx] ELSE routes[chain].middleware[idx]

BehavioursOf(ref) ==
    CASE ref = "scheduled" -> SchedBehaviours(scheduleHandler)
      [] ref = "cors" -> { CorsBeh }
      [] ref = "corsOptions" -> { CorsOptionsBeh }
      [] ref = "thrower" -> ThrowBehaviours
      [] ref = "handback" -> HandBackBehaviours
      [] OTHER -> FnBehaviours

\* execMiddleware: `response?.hasSent` on the value the item returned
ReturnedHasSent(ret, r) == ret = ResRef /\ r.hasSent

\* execMiddleware: the awaited item settles; the body of the try block, or the
\* entry into the catch block
MwSettle(idx, b) ==
    /\ pc = "await"
    /\ idx \in inProgress
    /\ b \in BehavioursOf(RefOf(idx))
    /\ FitsHooks(res, b)
    /\ inProgress' = inProgress \ {idx}
    /\ last' = [beh |-> b.name, fresh |-> res.code = NoCode,
                cors |-> CASE b.name # CorsName -> last.cors
                           [] NeedsCorsAttach(CorsSettings.attachOptions) -> "attached"
                           [] OTHER -> "skipped"]
    /\ LET a == ApplyOps(res, b.ops)
           threw == a.thrown \/ b.throws
           stop == ReturnedHasSent(b.ret, a.res)
           wrap == ~stop /\ Truthy(b.ret) /\ b.ret # ResRef /\ stack = <<>>
       IN  IF threw
             THEN /\ caught' = (IF a.thrown THEN a.err ELSE b.ret)
                  /\ res' = a.res
                  /\ hookIdx' = 1
                  /\ errRuns' = <<>>
                  /\ pc' = "catch"
                  /\ UNCHANGED response
             ELSE /\ res' = (IF wrap THEN ResEnd(a.res, b.ret) ELSE a.res)
                  /\ response' = (IF stop \/ wrap THEN ResRef ELSE b.ret)
                  /\ pc' = (IF stop \/ stack = <<>> THEN "chainEnd" ELSE "chain")
                  /\ UNCHANGED << caught, hookIdx, errRuns >>
    /\ IF b.name = CorsName /\ NeedsCorsAttach(CorsSettings.attachOptions)
         THEN /\ routes' = CorsAttach(routes)
              /\ loadedCors' = TRUE
         ELSE UNCHANGED << routes, loadedCors >>
    /\ sched' = EndpointSched(sched, b)
    /\ UNCHANGED << phase, earlyMiddleware, schedulerSetup, scheduleHandler,
                    settingsScheduler, req, chain, stack, outcome, calls, hookRuns, probe >>
    /\ UNCHANGED debugEnabled

\* catch block: Array.fromAsync(res.afterErrorCallbacks, cb => cb(req, res, e))
ErrHook(o) ==
    /\ pc = "catch"
    /\ hookIdx <= Len(res.afterErrorCallbacks)
    /\ o \in {"noop", "throw"}
    /\ IF o = "throw"
         THEN /\ outcome' = Raised("error hook threw")
              /\ pc' = "raised"
              /\ UNCHANGED hookIdx
         ELSE /\ hookIdx' = hookIdx + 1
              /\ UNCHANGED << outcome, pc >>
    /\ errRuns' = Append(errRuns, [idx |-> hookIdx, args |-> << "req", "res", caught >>])
    /\ UNCHANGED << phase, router, req, res, chain, stack, response, inProgress, caught,
                    calls, last, hookRuns, history >>
    /\ UNCHANGED debugEnabled

\* a catch block that does not wait for the error hooks it has started
ErrHooksDoneNoAwait == hookIdx >= 1

\* catch block: `await Array.fromAsync(res.afterErrorCallbacks, ...)` is over
\* when every hook of the queue has been run and awaited
ErrHooksDone == hookIdx > Len(res.afterErrorCallbacks)

\* catch block: the error digest is written to the response and the loop is left
ErrFinalize ==
    /\ pc = "catch"
    /\ ErrHooksDone
    /\ res' = ErrorResponse(res, errorText(caught))
    /\ response' = ResRef
    /\ pc' = "chainEnd"
    /\ UNCHANGED << phase, router, req, chain, stack, inProgress, caught, hookIdx, outcome,
                    calls, last, hookRuns, errRuns, history >>
    /\ UNCHANGED debugEnabled

\* a 404 built on a response of its own
NotFoundFresh(r) == ResSendStatus(NewResponse, NumCode(404), TRUE)

\* fetch(): res.sendStatus(404) on the response the global chain has worked on
NotFound(r) == ResSendStatus(r, NumCode(404), TRUE)

\* fetch(): the global chain has returned; resolve the route, populate the
\* params and start the route chain, or send the 404
AfterEarly ==
    /\ pc = "chainEnd"
    /\ chain = 0
    /\ LET r == resolve(routes, req)
       IN  IF r = 0
             THEN /\ res' = NotFound(res)
                  /\ hookIdx' = 1
                  /\ pc' = "serve"
                  /\ UNCHANGED << req, chain, stack, response, outcome >>
             ELSE /\ req' = [req EXCEPT !.params =
                               LET pat == routes[r].paths[FirstPathIndex(routes[r].paths, req.path)]
                               IN  Groups(pat, req.path)]
                  /\ chain' = r
                  /\ IF ChainResolves(routes[r].middleware)
                       THEN /\ stack' = StackOf(routes[r].middleware)
                            /\ response' = Undefined
                            /\ pc' = IF routes[r].middleware = <<>> THEN "chainEnd" ELSE "chain"
                            /\ UNCHANGED outcome
                       ELSE /\ outcome' = Raised(ChainResolveError(routes[r].middleware))
                            /\ pc' = "raised"
                            /\ UNCHANGED << stack, response >>
                  /\ UNCHANGED << res, hookIdx >>
    /\ UNCHANGED << phase, router, inProgress, caught, calls, last, hookRuns, errRuns, history >>
    /\ UNCHANGED debugEnabled

ChainEndedError == "Middleware chain ended without returning a response!"

\* a fetch() that serves whatever the chain has left
NoResponseNever(v) == FALSE

\* fetch(): `if (!response)` on what execMiddleware returned for the route
NoResponse(v) == ~Truthy(v)

\* fetch(): the route chain has returned
AfterRoute ==
    /\ pc = "chainEnd"
    /\ chain > 0
    /\ IF NoResponse(response)
         THEN /\ outcome' = Raised(ChainEndedError)
              /\ pc' = "raised"
              /\ UNCHANGED hookIdx
         ELSE /\ hookIdx' = 1
              /\ pc' = "serve"
              /\ UNCHANGED outcome
    /\ UNCHANGED << phase, router, req, res, chain, stack, response, inProgress, caught,
                    calls, last, hookRuns, errRuns, history >>
    /\ UNCHANGED debugEnabled

\* what a before-serve hook does to the response
HookEffect(r, o) ==
    CASE o = "etag" -> ResSet(r, {"ETag"})
      [] o = "notModified" -> ResSendStatus(ResSet(r, {"ETag"}), NumCode(304), TRUE)
      [] OTHER -> r

\* a conversion that does not wait for the hooks it has started
ServeReadyNoAwait == hookIdx >= 1

\* toCloudflareResponse(): `await Array.fromAsync(...)` is over when every hook
\* of the queue has been run and awaited
ServeReady == hookIdx > Len(res.beforeServeCallbacks)

\* toCloudflareResponse(): Array.fromAsync(this.beforeServeCallbacks, ...)
ServeHook(o) ==
    /\ pc = "serve"
    /\ hookIdx <= Len(res.beforeServeCallbacks)
    /\ o \in HookOutcomes
    /\ IF o = "throw"
         THEN /\ outcome' = Raised("before-serve hook threw")
              /\ pc' = "raised"
              /\ UNCHANGED << res, hookIdx >>
         ELSE /\ res' = HookEffect(res, o)
              /\ hookIdx' = hookIdx + 1
              /\ UNCHANGED << outcome, pc >>
    /\ hookRuns' = Append(hookRuns, hookIdx)
    /\ UNCHANGED << phase, router, req, chain, stack, response, inProgress, caught, calls,
                    last, errRuns, history >>
    /\ UNCHANGED debugEnabled

\* toCloudflareResponse(): the native response is constructed and returned
ServeFinish ==
    /\ pc = "serve"
    /\ ServeReady
    /\ outcome' = NativeResponse(res)
    /\ pc' = "done"
    /\ UNCHANGED << phase, router, req, res, chain, stack, response, inProgress, caught,
                    hookIdx, calls, last, hookRuns, errRuns, history >>
    /\ UNCHANGED debugEnabled

\* the invocation is over; the next request finds a fresh request and response
FetchReturn ==
    /\ pc \in {"done", "raised"}
    /\ pc' = "idle"
    /\ req' = NoReq
    /\ res' = NewResponse
    /\ chain' = 0
    /\ stack' = <<>>
    /\ response' = Undefined
    /\ inProgress' = {}
    /\ caught' = Undefined
    /\ hookIdx' = 0
    /\ outcome' = NoOutcome
    /\ calls' = <<>>
    /\ last' = NoLast
    /\ hookRuns' = <<>>
    /\ errRuns' = <<>>
    /\ UNCHANGED << phase, router, history >>
    /\ UNCHANGED debugEnabled

(* ----------------------------------------------------------------------- *)
(* The specification                                                       *)
(* ----------------------------------------------------------------------- *)
Next ==
    \/ \E m \in MethodLists, p \in PathLists, n \in 0..MaxChain :
         route(m, p, [i \in 1..n |-> "fn"])
    \/ \E mw \in SeqsUpTo(UserRefs, MaxEarly) : use(mw)
    \/ Serve
    \/ \E m \in Methods, p \in RawPaths : FetchStart(m, p, FALSE)
    \/ \E d \in BOOLEAN : ParseBody(d)
    \/ MwInvoke
    \/ \E i \in inProgress, b \in FnBehaviours \cup SchedBehaviours(scheduleHandler) :
         MwSettle(i, b)
    \/ \E o \in HookOutcomes : ErrHook(o)
    \/ ErrFinalize
    \/ AfterEarly
    \/ AfterRoute
    \/ \E o \in HookOutcomes : ServeHook(o)
    \/ ServeFinish
    \/ FetchReturn

Spec == Init /\ [][Next]_vars

(* ----------------------------------------------------------------------- *)
(* The scheduler: a router whose settings.scheduler is any of true, false  *)
(* and 'VAR', environments with and without COWBOY_SCHEDULER, schedule(),  *)
(* scheduled(), and requests to /__scheduled.                              *)
(* ----------------------------------------------------------------------- *)
SchedulerSettings == {"true", "false", "VAR"}
SchedMethodLists == { <<"GET">>, <<"POST">> }
SchedRawPaths == { ScheduledPath, <<"widgets">> }
\* "/:name" accepts every one-segment path, "/__scheduled" included
SchedPathLists == PathLists \cup { << <<":name">> >> }

SchedInit ==
    /\ phase = "setup"
    /\ routes = <<>>
    /\ earlyMiddleware = <<>>
    /\ schedulerSetup = FALSE
    /\ scheduleHandler = FALSE
    /\ pc = "idle"
    /\ req = NoReq
    /\ res = NewResponse
    /\ chain = 0
    /\ stack = <<>>
    /\ response = Undefined
    /\ inProgress = {}
    /\ caught = Undefined
    /\ hookIdx = 0
    /\ outcome = NoOutcome
    /\ calls = <<>>
    /\ last = NoLast
    /\ hookRuns = <<>>
    /\ errRuns = <<>>
    /\ loadedCors = FALSE
    /\ settingsScheduler \in SchedulerSettings
    /\ sched = NoSched
    /\ probe = NoProbe
    /\ debugEnabled = FALSE

\* scheduled(event, env, ctx)
scheduled(kind) ==
    /\ phase = "serving"
    /\ pc = "idle"
    /\ IF ~scheduleHandler
         THEN sched' = [NoSched EXCEPT !.envSeen = sched.envSeen, !.owner = sched.owner,
                                       !.raised = TRUE]
         ELSE LET run == HandlerRun(kind, HandlerCtx("scheduled"))
              IN  sched' =
                    [NoSched EXCEPT
                       !.handlerCalls = << HandlerCall("scheduled", kind) >>,
                       !.waitUntil =
                         (IF run.hostWait THEN << [by |-> "handler", value |-> "value"] >>
                                          ELSE <<>>)
                         \o (IF run.result = "thrown" THEN <<>>
                                                       ELSE WaitUntilArgs(run.result)),
                       !.ctxErrors = IF run.ctxError THEN 1 ELSE 0,
                       !.envSeen = sched.envSeen,
                       !.owner = sched.owner,
                       !.raised = run.result = "thrown"]
    /\ UNCHANGED << phase, router, request, probe >>
    /\ UNCHANGED debugEnabled

\* A second fetch() entered while the first is suspended at an await: its
\* scheduler set-up runs before its own first await.  The route the first
\* invocation holds stays the same route when the list is spliced.
FetchConcurrent(envScheduler) ==
    /\ phase = "serving"
    /\ pc \in {"parseBody", "chain", "await", "catch", "chainEnd", "serve"}
    /\ sched' = [sched EXCEPT !.envSeen = @ \/ envScheduler]
    /\ IF NeedsSchedulerSetup(envScheduler)
         THEN LET at == FirstGetIndex(routes)
                  Moved(c) == IF c >= at THEN c + 1 ELSE c
              IN  /\ schedulerSetup' = TRUE
                  /\ routes' = Splice(routes, at, ScheduledRoute)
                  /\ chain' = Moved(chain)
                  /\ calls' = [i \in 1..Len(calls) |->
                                 [calls[i] EXCEPT !.chain = Moved(@)]]
         ELSE UNCHANGED << schedulerSetup, routes, chain, calls >>
    /\ UNCHANGED << phase, earlyMiddleware, scheduleHandler, settingsScheduler, pc, req,
                    res, stack, response, inProgress, caught, hookIdx, outcome, last,
                    hookRuns, errRuns, loadedCors, probe >>
    /\ UNCHANGED debugEnabled

SchedNext ==
    \/ \E m \in SchedMethodLists, p \in SchedPathLists : route(m, p, <<"fn">>)
    \/ \E mw \in SeqsUpTo(UserRefs, MaxEarly) : use(mw)
    \/ schedule
    \/ Serve
    \/ \E m \in Methods, p \in SchedRawPaths, e \in BOOLEAN : FetchStart(m, p, e)
    \/ \E e \in BOOLEAN : FetchConcurrent(e)
    \/ \E k \in HandlerKinds : scheduled(k)
    \/ \E d \in BOOLEAN : ParseBody(d)
    \/ MwInvoke
    \/ \E i \in inProgress, b \in FnBehaviours \cup SchedBehaviours(scheduleHandler) :
         MwSettle(i, b)
    \/ \E o \in HookOutcomes : ErrHook(o)
    \/ ErrFinalize
    \/ AfterEarly
    \/ AfterRoute
    \/ \E o \in HookOutcomes : ServeHook(o)
    \/ ServeFinish
    \/ FetchReturn

SpecSched == SchedInit /\ [][SchedNext]_vars

(* ----------------------------------------------------------------------- *)
(* What the routers of one module share: this router, whose routes and     *)
(* requests are the state above, another one that installs a schedule      *)
(* handler, and requests whose environment enables debugging               *)
(* ----------------------------------------------------------------------- *)
TwoNext ==
    \/ \E m \in SchedMethodLists : route(m, << <<"widgets">> >>, <<"fn">>)
    \/ schedule
    \/ scheduleOther
    \/ Serve
    \/ \E m \in Methods, e \in BOOLEAN : FetchStart(m, ScheduledPath, e)
    \/ \E m \in Methods : FetchDebug(m, <<"widgets">>)
    \/ \E k \in HandlerKinds : scheduled(k)
    \/ ParseBody(TRUE)
    \/ MwInvoke
    \/ \E i \in inProgress, b \in {Pass, RetObj} \cup SchedBehaviours(scheduleHandler) :
         MwSettle(i, b)
    \/ ErrFinalize
    \/ AfterEarly
    \/ AfterRoute
    \/ ServeFinish
    \/ FetchReturn

SpecTwo == SchedInit /\ [][TwoNext]_vars

(* ----------------------------------------------------------------------- *)
(* An application that uses the middleware registry: the CORS middleware   *)
(* as global middleware, routes with several patterns, chains that hold a  *)
(* reference the registry cannot resolve, and OPTIONS requests.            *)
(* ----------------------------------------------------------------------- *)
AppMethodLists == { <<"GET">>, <<"POST">>, <<"OPTIONS">> }
AppPathLists == { << <<"widgets", ":id">> >>, << <<":kind", "7">>, <<"widgets", ":id">> >> }
AppChains == { <<>>, <<"fn">>, <<"fn", "nope">>, <<"fn", "42">> }
AppEarly == { <<"cors">>, <<"nope">> }
AppMethods == {"GET", "OPTIONS"}
AppRawPaths == { <<"widgets", "7">>, <<"nope">> }
AppBehaviours == { Pass, RetObj, Throw404, CorsBeh, CorsOptionsBeh }

AppNext ==
    \/ \E m \in AppMethodLists, p \in AppPathLists, mw \in AppChains : route(m, p, mw)
    \/ \E mw \in AppEarly : use(mw)
    \/ Serve
    \/ \E m \in AppMethods, p \in AppRawPaths : FetchStart(m, p, FALSE)
    \/ \E d \in BOOLEAN : ParseBody(d)
    \/ MwInvoke
    \/ \E i \in inProgress, b \in AppBehaviours : MwSettle(i, b)
    \/ ErrFinalize
    \/ AfterEarly
    \/ AfterRoute
    \/ ServeFinish
    \/ FetchReturn

SpecApp == Init /\ [][AppNext]_vars

(* ----------------------------------------------------------------------- *)
(* An application whose requests arrive both from the host and through     *)
(* proxy(), with every kind of body proxy() tells apart.                   *)
(* ----------------------------------------------------------------------- *)
ProxyBodies ==
    { Undefined, Str("id=7"), FormData("id", "7"), URLSearchParams("id", "7"),
      ReadableStream("id=7"), Obj("id", "7"), Blob("id=7") }
ProxyBehaviours == { Pass, RetObj, Throw404 }

ProxyNext ==
    \/ \E m \in MethodLists, p \in PathLists, n \in 0..1 : route(m, p, [i \in 1..n |-> "fn"])
    \/ Serve
    \/ \E p \in RawPaths : FetchStart("POST", p, FALSE)
    \/ \E g \in BOOLEAN, p \in RawPaths, b \in ProxyBodies : proxy(g, "POST", p, b, FALSE)
    \/ \E d \in BOOLEAN : ParseBody(d)
    \/ MwInvoke
    \/ \E i \in inProgress, b \in ProxyBehaviours : MwSettle(i, b)
    \/ ErrFinalize
    \/ AfterEarly
    \/ AfterRoute
    \/ ServeFinish
    \/ FetchReturn

SpecProxy == Init /\ [][ProxyNext]_vars

(* ----------------------------------------------------------------------- *)
(* An application whose middleware throws every shape of value the error   *)
(* digest tells apart, and hands the response object back in every state   *)
(* a middleware can leave it in.                                           *)
(* ----------------------------------------------------------------------- *)
ChainPath == << <<"widgets", ":id">> >>
ChainChains ==
    { <<"thrower">>, <<"handback">>, <<"fn", "thrower">>, <<"fn", "handback">>, <<"fn", "fn">> }
ChainBehaviours ==
    {Pass, RegBeforeServe, RegAfterError} \cup ThrowBehaviours \cup HandBackBehaviours

ChainNext ==
    \/ \E mw \in ChainChains : route(<<"GET">>, ChainPath, mw)
    \/ \E mw \in SeqsUpTo({"thrower"}, MaxEarly) : use(mw)
    \/ Serve
    \/ \E p \in RawPaths : FetchStart("GET", p, FALSE)
    \/ ParseBody(TRUE)
    \/ MwInvoke
    \/ \E i \in inProgress, b \in ChainBehaviours : MwSettle(i, b)
    \/ \E o \in HookOutcomes : ErrHook(o)
    \/ ErrFinalize
    \/ AfterEarly
    \/ AfterRoute
    \/ \E o \in HookOutcomes : ServeHook(o)
    \/ ServeFinish
    \/ FetchReturn

SpecChain == Init /\ [][ChainNext]_vars

\* The steps fetch() takes by itself once what it awaits has settled, and the
\* settling of the items and hooks it awaits.
Dispatch ==
    \/ ParseBody(TRUE)
    \/ MwInvoke
    \/ \E i \in inProgress, b \in ChainBehaviours : MwSettle(i, b)
    \/ \E o \in HookOutcomes : ErrHook(o)
    \/ ErrFinalize
    \/ AfterEarly
    \/ AfterRoute
    \/ \E o \in HookOutcomes : ServeHook(o)
    \/ ServeFinish

\* An async function resumes after every promise it awaits has settled, and
\* every item and hook called is assumed to settle: a fetch() that can take a
\* step takes one.
SpecChainFair == SpecChain /\ WF_vars(Dispatch)

(* ----------------------------------------------------------------------- *)
(* Every method of the builder called directly, on a few inputs            *)
(* ----------------------------------------------------------------------- *)
BuilderData == { Undefined, Str("hi") }
BuilderCodes == {204, 404}
BuilderTypes == {"json", "csv", "text/csv"}

\* set(options, value)
CallSet(hdrs) ==
    /\ phase = "setup" /\ pc = "idle"
    /\ res' = ResSet(res, hdrs)
    /\ probe' = Probe("set", NoCode, Undefined, res, FALSE)
    /\ UNCHANGED << phase, router, pc, req, chain, stack, response, inProgress, caught,
                    hookIdx, outcome, calls, last, hookRuns, errRuns, sched >>
    /\ UNCHANGED debugEnabled

\* type(type): the shorthands, else `if (!/\//.test(type)) throw`
TypeRejects(type) ==
    /\ type \notin {"html", "json", "text"}
    /\ \A i \in 1..Len(type) : SubSeq(type, i, i) # "/"
CallType(type) ==
    /\ phase = "setup" /\ pc = "idle"
    /\ res' = IF TypeRejects(type) THEN res ELSE ResSet(res, {"Content-Type"})
    /\ probe' = Probe("type", NoCode, Str(type), res, TypeRejects(type))
    /\ UNCHANGED << phase, router, pc, req, chain, stack, response, inProgress, caught,
                    hookIdx, outcome, calls, last, hookRuns, errRuns, sched >>
    /\ UNCHANGED debugEnabled

\* beforeServe(cb)
CallBeforeServe ==
    /\ phase = "setup" /\ pc = "idle"
    /\ Len(res.beforeServeCallbacks) < MaxHooks
    /\ res' = ResBeforeServe(res, "cb")
    /\ probe' = Probe("beforeServe", NoCode, Undefined, res, FALSE)
    /\ UNCHANGED << phase, router, pc, req, chain, stack, response, inProgress, caught,
                    hookIdx, outcome, calls, last, hookRuns, errRuns, sched >>
    /\ UNCHANGED debugEnabled

\* toCloudflareResponse(): every queued callback is run, each with outcome o,
\* then the native response is built
CallToCloudflareResponse(o) ==
    /\ phase = "setup" /\ pc = "idle"
    /\ LET runs == res.beforeServeCallbacks # <<>>
           threw == runs /\ o = "throw"
           after == IF runs /\ ~threw THEN HookEffect(res, o) ELSE res
       IN  /\ res' = after
           /\ outcome' = (IF threw THEN Raised("before-serve hook threw")
                                   ELSE NativeResponse(after))
           /\ probe' = Probe("toCloudflareResponse", NoCode, Undefined, res, threw)
    /\ UNCHANGED << phase, router, pc, req, chain, stack, response, inProgress, caught,
                    hookIdx, calls, last, hookRuns, errRuns, sched >>
    /\ UNCHANGED debugEnabled

BuilderNext ==
    \/ CallSet({"X-Powered-By"})
    \/ \E t \in BuilderTypes : CallType(t)
    \/ \E d \in BuilderData, e \in BOOLEAN : CallSend(d, e)
    \/ \E d \in BuilderData : CallEnd(d)
    \/ \E n \in BuilderCodes : CallStatus(n)
    \/ \E n \in BuilderCodes, d \in BuilderData, e \in BOOLEAN : CallSendStatus(n, d, e)
    \/ CallBeforeServe
    \/ \E o \in {"noop", "notModified", "throw"} : CallToCloudflareResponse(o)

SpecBuilder == Init /\ [][BuilderNext]_vars

(* ----------------------------------------------------------------------- *)
(* Properties                                                              *)
(* ----------------------------------------------------------------------- *)
Settled == pc \in {"done", "raised"}
Returned == pc = "done"

\* the item settled last was the last item of the matched route's chain
LastOfRoute(name) ==
    /\ chain > 0
    /\ calls # <<>>
    /\ calls[Len(calls)].chain = chain
    /\ stack = <<>>
    /\ inProgress = {}
    /\ last.beh = name

\* the number of calls of the same chain among the first i calls
CallsBefore(i) == Cardinality({ j \in 1..(i - 1) : calls[j].chain = calls[i].chain })

\* C1: every route middleware invoked for a request belongs to the first route,
\* in the order of the routes list, whose method list contains the request
\* method and whose matcher accepts the tidied path; no later matching route's
\* middleware is invoked.
C1_FirstMatchWins ==
    \A i \in 1..Len(calls) :
      calls[i].chain > 0 =>
        /\ calls[i].chain <= Len(routes)
        /\ RouteMatches(routes[calls[i].chain], req)
        /\ \A j \in 1..(calls[i].chain - 1) : ~RouteMatches(routes[j], req)

C1_Witness ==
    /\ Len(routes) = 2
    /\ RouteMatches(routes[1], req)
    /\ RouteMatches(routes[2], req)
    /\ \E i \in 1..Len(calls) : calls[i].chain = 1

\* C2 (as claimed): the response returned for a request that no route matches
\* has status 404 and a non-empty body.
C2_NotFoundHasBody ==
    (Returned /\ \A i \in 1..Len(routes) : ~RouteMatches(routes[i], req)) =>
        /\ outcome.status = NumCode(404)
        /\ Truthy(outcome.body)

\* C3 (as claimed): once an item of a chain has marked the response completed,
\* no later item of that chain is invoked, whatever the completing item returned.
C3_CompletedStopsChain ==
    \A i, j \in 1..Len(calls) :
      (calls[i].chain = calls[j].chain /\ calls[j].idx = 1 /\ calls[i].idx > 1)
        => (calls[i].sent => calls[j].sent)

\* C4 (as claimed): when the global chain has completed the response, no route
\* middleware is invoked for the request.
C4_GlobalCompletionStopsRoute ==
    \A i \in 1..Len(calls) :
      (calls[i].chain > 0 /\ calls[i].idx = 1) => ~calls[i].sent

\* C5 (as claimed): when the last middleware of the matched route returns a
\* plain object without a send, no status having been set before, fetch()
\* returns status 200 with the JSON text of the object and the response is
\* marked completed.
C5_ReturnedObjectIsJson200 ==
    (Returned /\ LastOfRoute("retObj") /\ last.fresh) =>
        /\ outcome.status = NumCode(200)
        /\ outcome.body = Str("{\"id\":\"7\"}")
        /\ res.hasSent

\* C5 (amended): the same, for a response on which no before-serve hook is queued.
C5_ReturnedObjectIsJson200NoHook ==
    (Settled /\ LastOfRoute("retObj") /\ last.fresh /\ res.beforeServeCallbacks = <<>>) =>
        /\ outcome.kind = "response"
        /\ outcome.status = NumCode(200)
        /\ outcome.body = Str("{\"id\":\"7\"}")
        /\ res.hasSent

C5_Witness ==
    /\ Returned
    /\ LastOfRoute("retObj")
    /\ last.fresh
    /\ res.beforeServeCallbacks = <<>>

\* the chain has just left its catch block for the item settled last
JustCaught ==
    /\ pc = "chainEnd"
    /\ calls # <<>>
    /\ calls[Len(calls)].chain = chain
    /\ last.beh \in {"throw404", "throwOops"}

\* C6 (as claimed): a thrown "<3 digits>: <text>" yields status <3 digits> and
\* body <text> ("404: widget missing" gives 404 and "widget missing"); any
\* other thrown message yields status 400 and the message as body.
C6_ThrownStatusAndText ==
    JustCaught =>
        LET m == caught.s
        IN  IF HasStatusPrefix(m) /\ CharAt(m, 5) = " "
              THEN /\ res.code.n = ParseStatus(SubSeq(m, 1, 3))
                   /\ res.body = Str(SubSeq(m, 6, Len(m)))
              ELSE /\ res.code.n = 400
                   /\ res.body = Str(m)

\* C7 (as claimed): every fetch() ends by returning a native response with a
\* status code and a body; nothing is raised out of fetch().
C7_FetchAlwaysResponds ==
    Settled =>
        /\ outcome.kind = "response"
        /\ outcome.status # NoCode
        /\ outcome.body.t \notin {"undefined"}

\* C8 (as claimed): when an item throws, the chain execution ends with the
\* response object as its result, marked completed and carrying the derived
\* status and body; nothing is raised out of the chain and no further item of
\* the chain is invoked.
C8_ThrowEndsChainWithResponse ==
    [][ pc = "catch" =>
          /\ pc' \in {"catch", "chainEnd"}
          /\ calls' = calls
          /\ pc' = "chainEnd" =>
               /\ response' = ResRef
               /\ res'.hasSent
               /\ res' = ErrorResponse(res, errorText(caught)) ]_vars

\* C9 (as claimed): a route whose last handler calls res.send(data) and returns
\* nothing makes fetch() return status 200 with that data; fetch() does not raise.
C9_SendWithoutReturn ==
    (Settled /\ LastOfRoute("sendNoRet") /\ last.fresh) =>
        /\ outcome.kind = "response"
        /\ outcome.status = NumCode(200)

\* C10: within a chain the items are invoked in registration order, each at
\* most once, and an item is invoked only when no other item is in progress.
C10_SequentialChain ==
    /\ Cardinality(inProgress) <= 1
    /\ \A i \in 1..Len(calls) : calls[i].idx = CallsBefore(i) + 1
    /\ pc = "await" => inProgress = { calls[Len(calls)].idx }
    /\ pc # "await" => inProgress = {}

C10_Witness ==
    /\ pc = "await"
    /\ Len(calls) >= 2
    /\ calls[Len(calls)].idx = 2

\* C16: the before-serve hooks of the response are run one at a time in
\* registration order, and the native response is constructed only after all
\* of them have run, from the status, headers and body the last hook left;
\* on every path of fetch() that returns a response.
C16_HooksBeforeNativeResponse ==
    /\ \A i \in 1..Len(hookRuns) : hookRuns[i] = i
    /\ Len(hookRuns) <= Len(res.beforeServeCallbacks)
    /\ Returned =>
          /\ Len(hookRuns) = Len(res.beforeServeCallbacks)
          /\ outcome = NativeResponse(res)

C16_Witness ==
    /\ Returned
    /\ hookRuns = <<1, 2>>
    /\ caught # Undefined
    /\ outcome.status = NumCode(304)

(* ----------------------------------------------------------------------- *)
(* The scheduler (checked under SpecSched)                                 *)
(* ----------------------------------------------------------------------- *)
SyntheticRoutes == { i \in 1..Len(routes) : routes[i] = ScheduledRoute }
NeverEnabled ==
    \/ settingsScheduler = "false"
    \/ settingsScheduler = "VAR" /\ ~sched.envSeen
ScheduledRequest == req.method = "GET" /\ req.path = ScheduledPath

\* C17: whatever fetch() invocations have run or are running, the routes list
\* holds at most one synthetic GET /__scheduled route, and none when the
\* scheduler was never enabled (settings.scheduler false, or 'VAR' and no
\* environment with COWBOY_SCHEDULER truthy).
C17_AtMostOneScheduledRoute ==
    /\ Cardinality(SyntheticRoutes) <= 1
    /\ NeverEnabled => SyntheticRoutes = {}
    /\ schedulerSetup <=> SyntheticRoutes # {}

C17_Witness ==
    /\ SyntheticRoutes = {2}
    /\ Len(routes) = 3
    /\ sched.installed
    /\ sched.envSeen
    /\ settingsScheduler = "VAR"
    /\ Returned

\* C18 (as claimed): GET /__scheduled on a router whose scheduler endpoint is
\* installed and that has no handler returns a response with status 404 and
\* an explanatory body; fetch() does not raise.
C18_NoHandlerIs404 ==
    (Settled /\ ScheduledRequest /\ sched.installed /\ ~scheduleHandler) =>
        /\ outcome.kind = "response"
        /\ outcome.status = NumCode(404)
        /\ outcome.body = Str("No scheduler installed")

\* C19: a scheduled() invocation with a handler installed calls the handler
\* exactly once, with the event and the env, and hands the value the handler
\* returned to the host's ctx.waitUntil exactly once; the handler itself never
\* reaches the host's waitUntil.
C19_ScheduledWaitsOnHandler ==
    (sched.handlerCalls # <<>> /\ sched.handlerCalls[1].via = "scheduled") =>
        /\ Len(sched.handlerCalls) = 1
        /\ sched.handlerCalls[1].args = <<"event", "env">>
        /\ \A i \in 1..Len(sched.waitUntil) : sched.waitUntil[i].by = "adapter"
        /\ IF sched.raised THEN sched.waitUntil = <<>> ELSE Len(sched.waitUntil) = 1

C19_Witness ==
    /\ sched.handlerCalls = << HandlerCall("scheduled", "resolve") >>
    /\ sched.waitUntil = << [by |-> "adapter", value |-> "resolved"] >>

\* C20: a handler that calls waitUntil on the context it is given gets an
\* error from that call, through scheduled() and through the /__scheduled
\* route alike, and the waitUntil of the host is never called by the handler.
C20_HandlerWaitUntilIsRefused ==
    /\ \A i \in 1..Len(sched.handlerCalls) :
          CallsWaitUntil(sched.handlerCalls[i].kind) => sched.ctxErrors = 1
    /\ \A i \in 1..Len(sched.waitUntil) : sched.waitUntil[i].by # "handler"

C20_Witness ==
    /\ Returned
    /\ sched.handlerCalls = << HandlerCall("fetch", "waitUntil") >>
    /\ sched.ctxErrors = 1
    /\ outcome.status = NumCode(400)

(* ----------------------------------------------------------------------- *)
(* The response builder used directly (checked under SpecRes)              *)
(* ----------------------------------------------------------------------- *)
EmptyBody(b) == ~Truthy(b)
Is2xx(code) == code.n >= 200 /\ code.n <= 299
IsClearing(code) == code.n < 200 \/ (code.n >= 300 /\ code.n <= 399)

\* C11 (as claimed): sendStatus(code, data) fails whenever a data argument is
\* supplied, whatever its value, and the failed call leaves status code, body
\* and hasSent as they were.
C11_SendStatusRejectsData ==
    (probe.op = "sendStatus" /\ probe.data # Undefined) =>
        /\ probe.threw
        /\ res.code = probe.before.code
        /\ res.body = probe.before.body
        /\ res.hasSent = probe.before.hasSent

\* C11 (amended): sendStatus(code, data) fails whenever data is truthy, and the
\* failed call leaves status code, body and hasSent as they were.
C11_SendStatusRejectsTruthyData ==
    (probe.op = "sendStatus" /\ Truthy(probe.data)) =>
        /\ probe.threw
        /\ res.code = probe.before.code
        /\ res.body = probe.before.body
        /\ res.hasSent = probe.before.hasSent

C11_Witness ==
    /\ probe.op = "sendStatus"
    /\ probe.data = Str("hi")
    /\ probe.threw
    /\ probe.before.code = NumCode(404)
    /\ res.code = NumCode(404)
    /\ ~res.hasSent

\* C12 (as claimed): after status(204) the body of the response is empty,
\* whatever body was set before.
C12_Status204ClearsBody ==
    (probe.op = "status" /\ probe.code = NumCode(204)) => EmptyBody(res.body)

\* C13: status(code) with 200 <= code <= 299 sets the body to "ok" when the
\* response had no body, and leaves a non-empty body as it was.
C13_Status2xxBody ==
    (probe.op = "status" /\ Is2xx(probe.code)) =>
        /\ res.code = probe.code
        /\ EmptyBody(probe.before.body) => res.body = Str("ok")
        /\ ~EmptyBody(probe.before.body) => res.body = probe.before.body

C13_Witness ==
    /\ probe.op = "status"
    /\ probe.code = NumCode(299)
    /\ probe.before.body = Str("hi")
    /\ res.body = Str("hi")

\* C14 (as claimed): status(code) with a failure code (400 and above) on a
\* response with no body sets a non-empty default failure body.
C14_StatusFailureBody ==
    (probe.op = "status" /\ probe.code.n >= 400 /\ EmptyBody(probe.before.body)) =>
        ~EmptyBody(res.body)

\* C15: status(code) with code below 200 or in 300..399 leaves the response
\* with an empty body, whatever body it had before.
C15_Status1xx3xxClears ==
    (probe.op = "status" /\ IsClearing(probe.code)) =>
        /\ res.code = probe.code
        /\ EmptyBody(res.body)

C15_Witness ==
    /\ probe.op = "status"
    /\ probe.code = NumCode(304)
    /\ probe.before.body = Str("hi")
    /\ res.body = Null

C24_DecodeErrorDoesNotEscape == pc = "raised" => outcome.error # InvalidJsonBody

\* C25: when the global chain has ended with the error response of an
\* exception thrown by a global middleware, the request is over: the next step
\* resolves no route, starts no route chain and leaves the error response as
\* the one fetch() is about to return.
C25_GlobalThrowIsTerminal ==
    [][(pc = "chainEnd" /\ chain = 0 /\ caught # Undefined) =>
         (pc' = "serve" /\ chain' = 0 /\ res' = res)]_vars

\* C26: when the last item of the route's chain has returned a value that is
\* not the response object and has called nothing on the response, falsy
\* values such as 0 included, the chain ends with that value sent as the
\* payload through send() and the response marked completed.
C26_ReturnedValueIsSent ==
    \A b \in FnBehaviours :
      (/\ pc = "chainEnd"
       /\ LastOfRoute(b.name)
       /\ b.ops = <<>> /\ ~b.throws /\ b.ret \notin {ResRef, Undefined}) =>
        /\ res.hasSent
        /\ res.body = (IF b.ret.t = "str" THEN b.ret ELSE JSONStringify(b.ret))

\* C28: while the catch block holds an exception, the error hooks registered
\* on the response are run one at a time in registration order, each once and
\* with (req, res, error); the error status and body are written only when
\* every registered hook has been run.
C28_ErrorHooksBeforeErrorResponse ==
    /\ [](pc = "catch" =>
           /\ Len(errRuns) = hookIdx - 1
           /\ Len(errRuns) <= Len(res.afterErrorCallbacks)
           /\ \A i \in 1..Len(errRuns) :
                errRuns[i] = [idx |-> i, args |-> << "req", "res", caught >>])
    /\ [][(pc = "catch" /\ pc' = "chainEnd") =>
            /\ Len(errRuns) = Len(res.afterErrorCallbacks)
            /\ errRuns' = errRuns]_vars

\* the error response has been written after two error hooks have run, the
\* first registered first
C28_Witness ==
    /\ pc = "chainEnd"
    /\ caught # Undefined
    /\ res.hasSent
    /\ Len(res.afterErrorCallbacks) = 2
    /\ Len(errRuns) = 2
    /\ errRuns[1].idx = 1 /\ errRuns[2].idx = 2

(* ----------------------------------------------------------------------- *)
(* Properties of the registry application                                  *)
(* ----------------------------------------------------------------------- *)
\* route i was attached by the CORS middleware
IsCorsRoute(i) == routes[i].middleware = <<"corsOptions">>

\* C21 (as stated): once the CORS middleware has run, no two of the OPTIONS
\* routes it attached are for the same path.
C21_NoDuplicateOptionsRoute ==
    \A i, j \in 1..Len(routes) :
      (i < j /\ IsCorsRoute(i) /\ IsCorsRoute(j)) => routes[i].paths # routes[j].paths

\* the number of paths of the registered routes rts[1..n] that lack OPTIONS
RECURSIVE PathsLackingOptions(_, _)
PathsLackingOptions(rts, n) ==
    IF n = 0 THEN 0
    ELSE PathsLackingOptions(rts, n - 1)
         + (IF Includes(rts[n].methods, "OPTIONS") THEN 0 ELSE Len(rts[n].paths))

\* C21: with attachOptions enabled the OPTIONS routes are attached only by the
\* first run of the CORS middleware: the router then holds one attached route
\* per path of each registered route that lacks OPTIONS, and a middleware run
\* that finds the router marked leaves the routes list as it found it.
C21_CorsAttachesOnce ==
    /\ [](loadedCors =>
           Cardinality({ i \in 1..Len(routes) : IsCorsRoute(i) })
             = PathsLackingOptions(routes, Len(routes)))
    /\ [][(loadedCors /\ pc = "await") => routes' = routes]_vars

\* a later run of the middleware has settled, on a router that holds the
\* OPTIONS routes the first run attached
C21_Witness ==
    /\ last.cors = "skipped"
    /\ loadedCors
    /\ \E i \in 1..Len(routes) : IsCorsRoute(i)

(* ----------------------------------------------------------------------- *)
(* Properties of proxy()                                                   *)
(* ----------------------------------------------------------------------- *)
\* the body of the inbound request that carries the given payload: a request
\* carries a plain key-value payload as its form fields, anything else as it is
InboundBody(body) == IF body.t = "obj" THEN FormData(body.k, body.s) ELSE body

\* fetch() has just been entered by proxy()
Proxied == pc = "parseBody" /\ probe.op = "proxy" /\ ~probe.threw

\* C22: the request proxy() hands to fetch() is the inbound request with the
\* given method, path and body, so that fetch() answers it as it answers that
\* request arriving from the host.
C22_ProxyIsDirectFetch == Proxied => req.body = InboundBody(probe.data)

\* call i of this request ran the CORS middleware as global middleware
IsGlobalCorsCall(i) == calls[i].chain = 0 /\ earlyMiddleware[calls[i].idx] = "cors"

\* C27: the global chain is started before the route is resolved and before
\* any route middleware (the first item invoked is the first global item and
\* no global item is invoked after a route item), and it runs for requests
\* that match no route too: the headers a global middleware has set are on the
\* 404 response.
C27_GlobalChainFirst ==
    /\ (chain > 0 /\ earlyMiddleware # <<>>) =>
         (calls # <<>> /\ calls[1].chain = 0 /\ calls[1].idx = 1)
    /\ \A i, j \in 1..Len(calls) : (i < j /\ calls[i].chain > 0) => calls[j].chain > 0
    /\ (Returned /\ chain = 0 /\ \E i \in 1..Len(calls) : IsGlobalCorsCall(i)) =>
         (outcome.status = NumCode(404) /\ CorsHeaders \subseteq outcome.headers)

\* a request that matches no route has been answered 404 with the headers
\* set by the global CORS middleware
C27_Witness ==
    /\ Returned
    /\ chain = 0
    /\ resolve(routes, req) = 0
    /\ calls # <<>>
    /\ IsGlobalCorsCall(1)
    /\ outcome.status = NumCode(404)
    /\ CorsHeaders \subseteq outcome.headers

\* the references of chain c: 0 is the global chain, r the chain of route r
ChainRefs(c) == IF c = 0 THEN earlyMiddleware ELSE routes[c].middleware

\* every reference of chain c is one the dispatcher can turn into a callable
AllCallable(c) == \A k \in 1..Len(ChainRefs(c)) : Resolvable(ChainRefs(c)[k])

\* fetch() has raised the error of a reference that does not resolve
ResolutionFailed ==
    pc = "raised" /\ outcome.error \in {TypeErrorApply, UnknownMiddlewareType}

\* C29: the references of a chain are all resolved before its first item is
\* invoked: an item is only ever invoked in a chain whose references all
\* resolve, and when a reference of a chain does not resolve, fetch() raises
\* the resolution error and no item of that chain has been invoked.
C29_ResolveBeforeInvoke ==
    /\ \A i \in 1..Len(calls) : AllCallable(calls[i].chain)
    /\ pc \in {"chain", "await", "catch", "chainEnd"} => AllCallable(chain)
    /\ ResolutionFailed =>
         /\ ~AllCallable(chain)
         /\ outcome.error = ChainResolveError(ChainRefs(chain))
         /\ \A i \in 1..Len(calls) : calls[i].chain # chain

\* the chain of the matched route holds a function and then a name the
\* registry lacks: fetch() has raised and the function was not invoked
C29_Witness ==
    /\ ResolutionFailed
    /\ chain > 0
    /\ routes[chain].middleware = <<"fn", "nope">>
    /\ outcome.error = TypeErrorApply
    /\ \A i \in 1..Len(calls) : calls[i].chain = 0

\* C30: the request has no route parameters while the global chain runs; from
\* the moment the route is resolved, and so before its first middleware is
\* invoked, they are the named groups of the first pattern of the matched
\* route, in the route's pattern order, that accepts the tidied path.
C30_ParamsFromFirstPattern ==
    /\ chain = 0 => req.params = <<>>
    /\ chain > 0 =>
         \E k \in 1..Len(routes[chain].paths) :
           /\ PatternTest(routes[chain].paths[k], req.path)
           /\ \A j \in 1..(k - 1) : ~PatternTest(routes[chain].paths[j], req.path)
           /\ req.params = Groups(routes[chain].paths[k], req.path)

\* a middleware of a route whose two patterns both accept /widgets/7 has been
\* invoked with the groups of the first pattern
C30_Witness ==
    /\ pc = "await"
    /\ chain > 0
    /\ Len(routes[chain].paths) = 2
    /\ \A k \in 1..2 : PatternTest(routes[chain].paths[k], req.path)
    /\ req.params = << <<"kind", "widgets">> >>
    /\ Groups(routes[chain].paths[2], req.path) = << <<"id", "7">> >>

(* ----------------------------------------------------------------------- *)
(* Properties of the error digest and of the response handed back          *)
(* ----------------------------------------------------------------------- *)
\* C31: the message for the exception held by the catch block follows the
\* precedence: a thrown string as it is; the message of an Error-like object
\* (a TypeError too) without the name of its class; else the string found in
\* error, err, data, data.errmsg, data.error, data.err or data.statusText;
\* else, null and undefined included, the generic message with status 400.
C31_ErrorTextPrecedence ==
    pc = "catch" =>
      LET e == caught
          expected ==
            CASE e.t = "str" -> e.s
              [] e.t = "Error" -> e.s
              [] e.t = "obj" /\ Includes(ErrorFields, e.k) -> e.s
              [] OTHER -> UnknownError
          written == ErrorResponse(res, errorText(e))
      IN  /\ written.body = Str(expected)
          /\ expected = UnknownError => written.code = NumCode(400)

\* C36: every response fetch() converts to the native form carries a status
\* that is not null, also when the chain ended by res.end() without data, by
\* res.send(x, false) followed by `return res`, or by handing back the
\* response nothing was done to.
C36_NativeStatusNonNull ==
    (Returned /\ outcome.kind = "response") => outcome.status # NoCode

(* ----------------------------------------------------------------------- *)
(* Properties of the scheduler set-up and of the router's own lists        *)
(* ----------------------------------------------------------------------- *)
AcceptsGet(rt) == Includes(rt.methods, "GET")
\* the routes the application registered, without those the router or the
\* CORS middleware added
UserRoutes(rts) ==
    SelectSeq(rts, LAMBDA rt : rt # ScheduledRoute /\ rt.middleware # <<"corsOptions">>)

\* C32: the set-up of the scheduler inserts the synthetic /__scheduled route
\* immediately before the first route that accepts GET at that moment, or
\* after the last route when none accepts GET; every route that was there is
\* still there, in the same order; and from the set-up on, GET /__scheduled
\* resolves to the synthetic route whatever patterns the user's routes have.
C32_InsertedBeforeFirstGet ==
    [][ (~schedulerSetup /\ schedulerSetup') =>
          \E at \in 1..(Len(routes) + 1) :
            /\ Len(routes') = Len(routes) + 1
            /\ routes'[at] = ScheduledRoute
            /\ \A j \in 1..(at - 1) : routes'[j] = routes[j] /\ ~AcceptsGet(routes[j])
            /\ \A j \in at..Len(routes) : routes'[j + 1] = routes[j]
            /\ at <= Len(routes) => AcceptsGet(routes[at]) ]_vars
C32_ScheduledRouteResolves ==
    schedulerSetup =>
      LET i == resolve(routes, [method |-> "GET", path |-> ScheduledPath])
      IN  i > 0 /\ routes[i] = ScheduledRoute
C32_SyntheticRouteFirstForGet ==
    C32_InsertedBeforeFirstGet /\ []C32_ScheduledRouteResolves
\* the synthetic route stands between a route that is not for GET and a GET
\* route whose pattern accepts /__scheduled too
C32_Witness ==
    /\ schedulerSetup
    /\ Len(routes) = 3
    /\ ~AcceptsGet(routes[1])
    /\ routes[2] = ScheduledRoute
    /\ RouteMatches(routes[3], [method |-> "GET", path |-> ScheduledPath])

(* ----------------------------------------------------------------------- *)
(* The first request of an application that uses the CORS middleware       *)
(* ----------------------------------------------------------------------- *)
\* the request is the one on which the CORS middleware, first of the global
\* chain, attached its routes: an OPTIONS request for a path of a registered
\* route that does not accept OPTIONS
FirstOptionsRequest ==
    /\ Returned
    /\ earlyMiddleware = << CorsName >>
    /\ last.cors = "attached"
    /\ req.method = "OPTIONS"
    /\ \E i \in 1..Len(routes) :
         /\ ~IsCorsRoute(i)
         /\ ~Includes(routes[i].methods, "OPTIONS")
         /\ isMatch(routes[i].paths, req.path)
\* a route of the application itself accepts OPTIONS for the path
OwnOptionsRoute ==
    \E i \in 1..Len(routes) :
      /\ ~IsCorsRoute(i)
      /\ Includes(routes[i].methods, "OPTIONS")
      /\ isMatch(routes[i].paths, req.path)
AnsweredByCors ==
    /\ outcome.kind = "response"
    /\ outcome.status = NumCode(200)
    /\ outcome.body = Str("ok")
    /\ outcome.headers = CorsHeaders

\* C33 (as stated): the very first request, when it is an OPTIONS request to
\* a path of a registered non-OPTIONS route, is answered with status 200, the
\* body "ok" and the CORS headers.
C33_FirstOptionsAnswered == FirstOptionsRequest => AnsweredByCors

\* C33: with use('cors') and attachOptions enabled, the very first request, when
\* it is an OPTIONS request to a path of a registered non-OPTIONS route that
\* no OPTIONS route of the application itself matches, is resolved to a route
\* attached during the global phase of that same request and answered with
\* status 200, the body "ok" and the CORS headers.
C33_FirstOptionsAnsweredByAttached ==
    (FirstOptionsRequest /\ ~OwnOptionsRoute) =>
      /\ chain > 0
      /\ IsCorsRoute(chain)
      /\ AnsweredByCors
\* the first request was such an OPTIONS request and a route attached while
\* its global chain ran has answered it
C33_Witness ==
    /\ FirstOptionsRequest
    /\ ~OwnOptionsRoute
    /\ chain > 0
    /\ IsCorsRoute(chain)
    /\ AnsweredByCors

(* ----------------------------------------------------------------------- *)
(* The /__scheduled route with a handler installed                          *)
(* ----------------------------------------------------------------------- *)
SchedulerThrewPrefix == "Scheduler threw error:"
FetchHandlerCalls == SelectSeq(sched.handlerCalls, LAMBDA c : c.via = "fetch")

\* C34 (as claimed): when the /__scheduled route has run with a handler installed, the
\* handler was called exactly once; a handler that resolved has its value
\* sent as the body of the completed response; a handler that threw or
\* rejected gives status 400 and a body that starts with "Scheduler threw
\* error:", the catch block of the dispatcher is not entered, and fetch()
\* goes on to serve the response.
C34_ScheduledEndpointAnswers ==
    /\ [](\A k \in HandlerKinds :
            (pc = "chainEnd" /\ LastOfRoute(EndpointName(k))) =>
              LET run == HandlerRun(k, "fake")
              IN  /\ Len(FetchHandlerCalls) = 1
                  /\ FetchHandlerCalls[1].kind = k
                  /\ response = ResRef
                  /\ res.hasSent
                  /\ IF run.result \in {"resolved", "value"}
                       THEN res.body = JSONStringify(run.value)
                       ELSE /\ res.code = NumCode(400)
                            /\ res.body.t = "str"
                            /\ Len(res.body.s) >= Len(SchedulerThrewPrefix)
                            /\ SubSeq(res.body.s, 1, Len(SchedulerThrewPrefix))
                                 = SchedulerThrewPrefix)
    /\ [][ (pc = "await" /\ chain > 0 /\ routes[chain] = ScheduledRoute /\ scheduleHandler)
            => pc' \in {"await", "chainEnd"} ]_vars
    /\ [][ (\E k \in HandlerKinds : pc = "chainEnd" /\ LastOfRoute(EndpointName(k)))
            => pc' \in {"chainEnd", "serve"} ]_vars

(* ----------------------------------------------------------------------- *)
(* The completion flag of the builder (checked under SpecBuilder)          *)
(* ----------------------------------------------------------------------- *)
\* C35: hasSent is monotonic: no call of set, type, send (complete or not),
\* end, status, sendStatus, beforeServe or toCloudflareResponse on a response
\* whose flag is true leaves it false.
C35_HasSentMonotonic == [][res.hasSent => res'.hasSent]_vars
\* send(data, false) was called on a response that was complete already
C35_Witness ==
    /\ probe.op = "send"
    /\ probe.before.hasSent
    /\ probe.before.body # res.body
    /\ res.hasSent

(* ----------------------------------------------------------------------- *)
(* The schedule handler of one router among several (checked under SpecTwo)*)
(* ----------------------------------------------------------------------- *)
\* C37: the schedule handler belongs to the router it was installed on:
\* whenever scheduled() or the /__scheduled route of this router has called a
\* handler, the handler is one installed by schedule() on this router, never
\* one installed on another router.
C37_HandlerPerRouter ==
    sched.handlerCalls # <<>> => sched.owner = "this"

\* C38: of what one fetch() writes, a later fetch() sees the routes list and
\* the two applied-once flags only; in particular an invocation whose
\* environment has no debug flag runs with debugging off, whatever the
\* environment of the invocations before it.
C38_DebugFollowsOwnEnv ==
    (pc # "idle" /\ ~sched.envDebug) => ~debugEnabled

\* C39: serving requests never changes what the application registered: every
\* step of every fetch() leaves the global middleware list as it is, and
\* leaves the user's routes, each with its methods, patterns and middleware
\* list, the same routes in the same order.
C39_RegisteredListsKept ==
    [][ phase = "serving" =>
          /\ earlyMiddleware' = earlyMiddleware
          /\ UserRoutes(routes') = UserRoutes(routes) ]_vars
\* a request has run both chains on a router whose scheduler set-up has
\* spliced the synthetic route between the user's two routes
C39_Witness ==
    /\ Returned
    /\ earlyMiddleware # <<>>
    /\ Len(routes) = 3
    /\ routes[2] = ScheduledRoute
    /\ \E i \in 1..Len(calls) : calls[i].chain = 3

(* ----------------------------------------------------------------------- *)
(* Termination of fetch() (checked under SpecChainFair)                    *)
(* ----------------------------------------------------------------------- *)
\* C40: when every item and every hook that is called settles, a fetch() that
\* has started settles: it returns a response or raises.  On the way no item
\* of a chain is called twice.
C40_FetchSettles ==
    /\ (pc = "parseBody") ~> Settled
    /\ [](\A i, j \in 1..Len(calls) :
            (i < j) => << calls[i].chain, calls[i].idx >> # << calls[j].chain, calls[j].idx >>)
\* a request that ran the global chain, both items of a route's chain and a
\* before-serve hook has returned
C40_Witness ==
    /\ Returned
    /\ Len(calls) = 3
    /\ hookRuns # <<>>

=============================================================================
